---- MODULE Spec2Model ----
(***************************************************************************)
(* Store Monitoring Service: uptime/downtime metrics per store and the     *)
(* parallel report generation that fans them out.                          *)
(*                                                                         *)
(* Time is counted in whole seconds since an epoch that is a Monday        *)
(* 00:00 UTC (date.weekday() = 0 on day number 0).  A zone is its UTC      *)
(* offset in seconds; zones are modelled away from their DST transitions.  *)
(* Day and week metrics are hundredths of an hour (2400 is 24.00).         *)
(***************************************************************************)
EXTENDS Integers, Sequences, FiniteSets, TLC

VARIABLES
    store_status,     \* table store_status: store id -> observations in timestamp order
    business_hours,   \* table business_hours: store id -> rows
    store_timezone,   \* table store_timezone: store id -> rows (at most one, a zone)
    reports,          \* the row of table reports for the report being generated
    call,             \* the arguments of the metrics_for_store call under study
    ret,              \* what that call returned (and the values it computed on the way)
    pc,               \* position of the generate_report_optimized thread
    store_ids,        \* generate_report_optimized: store_ids
    now,              \* generate_report_optimized: now
    pending,          \* executor work queue: submitted, not yet started
    worker,           \* store id -> position of its process_store call
    future,           \* store id -> state of its future
    results,          \* generate_report_optimized: results
    failed_stores,    \* generate_report_optimized: failed_stores
    csv_file,         \* the report file: whether it exists, is written and closed, and its rows
    timeout_elapsed,  \* TRUE once report_generation_timeout seconds have passed
    sessions,         \* every session made by SessionLocal(), in the order of creation
    db,               \* store id -> process_store: db, a handle into sessions (0: unbound)
    environ,          \* os.environ: SUPPRESS_DEBUG and the thread that assigned it
    suppress_debug,   \* store id -> metrics_for_store: suppress_debug, as read from os.environ
    response          \* what the latest get_report call answered

vars == <<store_status, business_hours, store_timezone, reports, call, ret,
          pc, store_ids, now, pending, worker, future, results,
          failed_stores, csv_file, timeout_elapsed, sessions, db, environ,
          suppress_debug, response>>

dbVars == <<store_status, business_hours, store_timezone>>
procVars == <<sessions, db, environ, suppress_debug>>
reportVars == <<reports, pc, store_ids, now, pending, worker, future, results,
                failed_stores, csv_file, timeout_elapsed, procVars, response>>

----------------------------------------------------------------------------
(* Units *)

MINUTE == 60
HOUR == 60 * MINUTE
DAY == 24 * HOUR
WEEK == 7 * DAY

Max(a, b) == IF a >= b THEN a ELSE b
Min(a, b) == IF a <= b THEN a ELSE b

(* time(h, m) as seconds since local midnight *)
T(h, m) == h * HOUR + m * MINUTE

----------------------------------------------------------------------------
(* app/core/time_utils.py *)

(* pytz zone of "America/Chicago" on the modelled dates (CDT, UTC-5) *)
Chicago == 0 - 5 * HOUR

(* A datetime is [wall |-> wall-clock seconds, aware |-> has a tzinfo,      *)
(* off |-> its UTC offset].  to_aware_utc: a naive datetime is read as UTC, *)
(* an aware one is shifted to UTC.                                          *)
to_aware_utc(dt) ==
    IF ~dt.aware THEN dt.wall ELSE dt.wall - dt.off

(* utc_to_local: the local wall clock of a UTC instant in zone tz *)
utc_to_local(utc, tz) == utc + tz

(* tz.localize(datetime.combine(date, t)).astimezone(UTC) *)
local_to_utc(date, t, tz) == date * DAY + t - tz

local_date(local) == local \div DAY
weekday(date) == date % 7

(* get_store_timezone_str: missing or unknown zone falls back to Chicago *)
get_store_timezone_str(tzTable, store_id) ==
    IF tzTable[store_id] = <<>> THEN Chicago ELSE tzTable[store_id][1]

(* get_business_hours_map: {} when the store has no row, else day -> rules *)
get_business_hours_map(bhTable, store_id) ==
    LET rows == bhTable[store_id]
        days == {rows[i].day_of_week : i \in DOMAIN rows}
    IN [d \in days |-> SelectSeq(rows, LAMBDA r : r.day_of_week = d)]

(* sorted(intervals, key=lambda x: x[0]): stable insertion sort on the start *)
RECURSIVE insert_by_start(_, _)
insert_by_start(sorted, iv) ==
    IF sorted = <<>> THEN <<iv>>
    ELSE IF sorted[Len(sorted)][1] <= iv[1] THEN Append(sorted, iv)
    ELSE Append(insert_by_start(SubSeq(sorted, 1, Len(sorted) - 1), iv),
                sorted[Len(sorted)])

RECURSIVE sort_by_start(_)
sort_by_start(intervals) ==
    IF intervals = <<>> THEN <<>>
    ELSE insert_by_start(sort_by_start(SubSeq(intervals, 1, Len(intervals) - 1)),
                         intervals[Len(intervals)])

(* the sweep of merge_utc_intervals over intervals[1:] *)
RECURSIVE merge_sweep(_, _, _)
merge_sweep(intervals, i, merged) ==
    IF i > Len(intervals) THEN merged
    ELSE LET s == intervals[i][1]
             e == intervals[i][2]
             last_s == merged[Len(merged)][1]
             last_e == merged[Len(merged)][2]
         IN IF s <= last_e
            THEN merge_sweep(intervals, i + 1,
                     [merged EXCEPT ![Len(merged)] = <<last_s, Max(last_e, e)>>])
            ELSE merge_sweep(intervals, i + 1, Append(merged, <<s, e>>))

merge_utc_intervals_sorted_only(intervals) == sort_by_start(intervals)

merge_utc_intervals(intervals) ==
    IF intervals = <<>> THEN <<>>
    ELSE LET sorted == sort_by_start(intervals)
         IN merge_sweep(sorted, 2, <<sorted[1]>>)

(* One rule on one local date, as a UTC interval (before clipping). *)
rule_utc_interval_same_date(tz, cur_date, r) ==
    IF r.start_t = T(0, 0) /\ r.end_t = T(0, 0)
    THEN <<local_to_utc(cur_date, T(0, 0), tz), local_to_utc(cur_date + 1, T(0, 0), tz)>>
    ELSE <<local_to_utc(cur_date, r.start_t, tz), local_to_utc(cur_date, r.end_t, tz)>>

rule_utc_interval_no_sentinel(tz, cur_date, r) ==
    IF r.start_t <= r.end_t
    THEN <<local_to_utc(cur_date, r.start_t, tz), local_to_utc(cur_date, r.end_t, tz)>>
    ELSE <<local_to_utc(cur_date, r.start_t, tz), local_to_utc(cur_date + 1, r.end_t, tz)>>

rule_utc_interval(tz, cur_date, r) ==
    IF r.start_t = T(0, 0) /\ r.end_t = T(0, 0)
    THEN <<local_to_utc(cur_date, T(0, 0), tz), local_to_utc(cur_date + 1, T(0, 0), tz)>>
    ELSE IF r.start_t <= r.end_t
    THEN <<local_to_utc(cur_date, r.start_t, tz), local_to_utc(cur_date, r.end_t, tz)>>
    ELSE <<local_to_utc(cur_date, r.start_t, tz), local_to_utc(cur_date + 1, r.end_t, tz)>>

(* The inner loop: the rules of one date, each clipped to the window. *)
RECURSIVE expand_day_rules(_, _, _, _, _, _, _)
expand_day_rules(tz, cur_date, day_rules, i, ws, we, intervals_utc) ==
    IF i > Len(day_rules) THEN intervals_utc
    ELSE LET iv == rule_utc_interval(tz, cur_date, day_rules[i])
             s_utc == iv[1]
             e_utc == iv[2]
             clipped_start == Max(s_utc, ws)
             clipped_end == Min(e_utc, we)
         IN expand_day_rules(tz, cur_date, day_rules, i + 1, ws, we,
                IF e_utc > ws /\ s_utc < we /\ clipped_start < clipped_end
                THEN Append(intervals_utc, <<clipped_start, clipped_end>>)
                ELSE intervals_utc)

(* The outer loop: while cur_date <= end_date *)
RECURSIVE expand_dates(_, _, _, _, _, _, _)
expand_dates(tz, bh_map, cur_date, end_date, ws, we, intervals_utc) ==
    IF cur_date > end_date THEN intervals_utc
    ELSE LET dow == weekday(cur_date)
             day_rules == IF dow \in DOMAIN bh_map THEN bh_map[dow] ELSE <<>>
         IN expand_dates(tz, bh_map, cur_date + 1, end_date, ws, we,
                expand_day_rules(tz, cur_date, day_rules, 1, ws, we, intervals_utc))

expand_business_hours_to_utc_no_default(tz, bh_map, ws, we) ==
    LET start_date == local_date(utc_to_local(ws, tz)) - 1
        end_date == local_date(utc_to_local(we, tz)) + 1
    IN merge_utc_intervals(
           expand_dates(tz, bh_map, start_date, end_date, ws, we, <<>>))

expand_business_hours_to_utc_no_margin(tz, bh_map, ws, we) ==
    IF DOMAIN bh_map = {} THEN << <<ws, we>> >>
    ELSE LET start_date == local_date(utc_to_local(ws, tz))
             end_date == local_date(utc_to_local(we, tz))
         IN merge_utc_intervals(
                expand_dates(tz, bh_map, start_date, end_date, ws, we, <<>>))

expand_business_hours_to_utc(tz, bh_map, ws, we) ==
    IF DOMAIN bh_map = {} THEN << <<ws, we>> >>
    ELSE LET start_date == local_date(utc_to_local(ws, tz)) - 1
             end_date == local_date(utc_to_local(we, tz)) + 1
         IN merge_utc_intervals(
                expand_dates(tz, bh_map, start_date, end_date, ws, we, <<>>))

----------------------------------------------------------------------------
(* app/core/uptime.py *)

(* The sweep over window_obs: a segment is closed at each change of status. *)
RECURSIVE sweep_window_obs(_, _, _, _, _)
sweep_window_obs(window_obs, i, current_time, current_status, segments) ==
    IF i > Len(window_obs)
    THEN [segments |-> segments, current_time |-> current_time,
          current_status |-> current_status]
    ELSE LET obs == window_obs[i]
         IN IF obs.status # current_status
            THEN sweep_window_obs(window_obs, i + 1, obs.ts, obs.status,
                     Append(segments, <<current_time, obs.ts, current_status>>))
            ELSE sweep_window_obs(window_obs, i + 1, current_time, current_status,
                     segments)

(* the query: the store's observations up to the window end, ascending *)
all_observations_window_only(rows, ws, we) ==
    SelectSeq(rows, LAMBDA o : ws <= o.ts /\ o.ts <= we)

all_observations(rows, ws, we) ==
    SelectSeq(rows, LAMBDA o : o.ts <= we)

(* the observations the loop assigns to prev_obs, the last of them staying *)
prev_observations(all_obs, ws) ==
    SelectSeq(all_obs, LAMBDA o : o.ts <= ws)

(* the observations the loop appends to window_obs *)
window_observations(all_obs, ws, we) ==
    SelectSeq(all_obs, LAMBDA o : ~(o.ts <= ws) /\ o.ts <= we)

(* the status effective at ws *)
initial_status_first_prior(all_obs, prev_all, window_obs) ==
    IF prev_all # <<>> THEN prev_all[1].status
    ELSE IF window_obs # <<>> THEN window_obs[1].status
    ELSE all_obs[Len(all_obs)].status

initial_status(all_obs, prev_all, window_obs) ==
    IF prev_all # <<>> THEN prev_all[Len(prev_all)].status
    ELSE IF window_obs # <<>> THEN window_obs[1].status
    ELSE all_obs[Len(all_obs)].status

(* current_time = ws *)
initial_time_at_prior(prev_all, ws) ==
    IF prev_all # <<>> THEN prev_all[Len(prev_all)].ts ELSE ws

initial_time(prev_all, ws) == ws

(* a store without any observation is down for the whole window *)
no_observation_segments_active(ws, we) == << <<ws, we, "active">> >>

no_observation_segments(ws, we) == << <<ws, we, "inactive">> >>

(* _status_segments, on the store's observations in timestamp order *)
_status_segments(rows, ws, we) ==
    LET all_obs == all_observations(rows, ws, we)
        prev_all == prev_observations(all_obs, ws)
        window_obs == window_observations(all_obs, ws, we)
        swept == sweep_window_obs(window_obs, 1, initial_time(prev_all, ws),
                     initial_status(all_obs, prev_all, window_obs), <<>>)
    IN IF all_obs = <<>> THEN no_observation_segments(ws, we)
       ELSE IF swept.current_time < we
       THEN Append(swept.segments, <<swept.current_time, we, swept.current_status>>)
       ELSE swept.segments

(* the seconds a segment and a business-hours interval share *)
overlap_seconds_whole_segment(seg, iv) ==
    IF Max(seg[1], iv[1]) >= Min(seg[2], iv[2]) THEN 0 ELSE seg[2] - seg[1]

overlap_seconds_from_segment_start(seg, iv) ==
    LET s == seg[1]
        e == Min(seg[2], iv[2])
    IN IF Max(seg[1], iv[1]) >= e THEN 0 ELSE e - s

overlap_seconds(seg, iv) ==
    LET s == Max(seg[1], iv[1])
        e == Min(seg[2], iv[2])
    IN IF s >= e THEN 0 ELSE e - s

(* _accumulate_overlaps: seconds of each status inside business hours *)
RECURSIVE accumulate_pairs(_, _, _, _, _)
accumulate_pairs(status_segs, bh, k, up, down) ==
    IF k > Len(status_segs) * Len(bh) THEN <<up, down>>
    ELSE LET seg == status_segs[((k - 1) \div Len(bh)) + 1]
             iv == bh[((k - 1) % Len(bh)) + 1]
             dur == overlap_seconds(seg, iv)
         IN IF dur = 0 THEN accumulate_pairs(status_segs, bh, k + 1, up, down)
            ELSE IF seg[3] = "active"
            THEN accumulate_pairs(status_segs, bh, k + 1, up + dur, down)
            ELSE accumulate_pairs(status_segs, bh, k + 1, up, down + dur)

_accumulate_overlaps(status_segs, bh_intervals_utc) ==
    IF status_segs = <<>> \/ bh_intervals_utc = <<>> THEN <<0, 0>>
    ELSE accumulate_pairs(status_segs, bh_intervals_utc, 1, 0, 0)

(* int(seconds / 60): whole minutes, truncated *)
to_minutes_rounded(seconds) == (seconds + 30) \div MINUTE

to_minutes(seconds) == seconds \div MINUTE

(* round(seconds / 3600.0, 2) in hundredths of an hour.  An exact half     *)
(* (seconds % 36 = 18) is sent to the even hundredth here; in Python it    *)
(* follows the binary value of the float.  No modelled input reaches one.  *)
to_hours_2dp(seconds) ==
    LET q == (seconds * 100) \div HOUR
        r == (seconds * 100) % HOUR
    IN IF 2 * r < HOUR THEN q
       ELSE IF 2 * r > HOUR THEN q + 1
       ELSE IF q % 2 = 0 THEN q ELSE q + 1

Labels == {"hour", "day", "week"}

(* windows: label -> (ws, we) *)
windows(now_utc) ==
    [label \in Labels |->
        IF label = "hour" THEN <<now_utc - HOUR, now_utc>>
        ELSE IF label = "day" THEN <<now_utc - DAY, now_utc>>
        ELSE <<now_utc - WEEK, now_utc>>]

(* One pass of the loop over windows: business hours, segments, seconds. *)
window_metrics_empty_means_open(obsTable, tz_str, bh_map, store_id, ws, we) ==
    LET expanded == expand_business_hours_to_utc(tz_str, bh_map, ws, we)
        bh_intervals_utc == IF expanded = <<>> THEN << <<ws, we>> >> ELSE expanded
        segments == _status_segments(obsTable[store_id], ws, we)
        acc == _accumulate_overlaps(segments, bh_intervals_utc)
    IN [ws |-> ws, we |-> we, bh_intervals_utc |-> bh_intervals_utc,
        segments |-> segments, up_s |-> acc[1], down_s |-> acc[2]]

window_metrics(obsTable, tz_str, bh_map, store_id, ws, we) ==
    LET bh_intervals_utc == expand_business_hours_to_utc(tz_str, bh_map, ws, we)
        segments == IF bh_intervals_utc = <<>> THEN <<>>
                    ELSE _status_segments(obsTable[store_id], ws, we)
        acc == IF bh_intervals_utc = <<>> THEN <<0, 0>>
               ELSE _accumulate_overlaps(segments, bh_intervals_utc)
    IN [ws |-> ws, we |-> we, bh_intervals_utc |-> bh_intervals_utc,
        segments |-> segments, up_s |-> acc[1], down_s |-> acc[2]]

(* metrics_for_store: the six fields, and the per-window values behind them *)
metrics_for_store(obsTable, bhTable, tzTable, store_id, now_dt) ==
    LET now_utc == to_aware_utc(now_dt)
        w == windows(now_utc)
        tz_str == get_store_timezone_str(tzTable, store_id)
        bh_map == get_business_hours_map(bhTable, store_id)
        m == [label \in Labels |->
                window_metrics(obsTable, tz_str, bh_map, store_id,
                               w[label][1], w[label][2])]
    IN [uptime_last_hour |-> to_minutes(m["hour"].up_s),
        downtime_last_hour |-> to_minutes(m["hour"].down_s),
        uptime_last_day |-> to_hours_2dp(m["day"].up_s),
        downtime_last_day |-> to_hours_2dp(m["day"].down_s),
        uptime_last_week |-> to_hours_2dp(m["week"].up_s),
        downtime_last_week |-> to_hours_2dp(m["week"].down_s),
        window |-> m]

----------------------------------------------------------------------------
(* Inputs of the calls under study *)

MaxObs == 3       \* observations of the store
MaxRules == 2     \* business-hours rows of the store, when listed row by row

(* The reference instant of the tests: Tuesday 12:00 UTC *)
N0 == 15 * DAY + 12 * HOUR

Utc(t) == [wall |-> t, aware |-> TRUE, off |-> 0]
NaiveDt(t) == [wall |-> t, aware |-> FALSE, off |-> 0]
InZone(t, off) == [wall |-> t + off, aware |-> TRUE, off |-> off]

Statuses == {"active", "inactive"}
ObsTimes == {N0 - 8 * DAY, N0 - DAY, N0 - HOUR, N0 - 30 * MINUTE, N0 - 1, N0}
Observations == [ts : ObsTimes, status : Statuses]

(* what the ordered query can return: up to n observations, ascending *)
ObsSeqs(n) ==
    UNION {{o \in [1..k -> Observations] :
                \A i \in 1..(k - 1) : o[i].ts <= o[i + 1].ts} : k \in 0..n}

WinTimes == {N0 - WEEK, N0 - DAY, N0 - HOUR, N0 - 30 * MINUTE, N0}
Windows == {w \in WinTimes \X WinTimes : w[1] < w[2]}

Rule(s, e) == [start_t |-> s, end_t |-> e]
Row(d, r) == [day_of_week |-> d, start_t |-> r.start_t, end_t |-> r.end_t]
NineToFive == Rule(T(9, 0), T(17, 0))
Overnight == Rule(T(22, 0), T(6, 0))
AllDay == Rule(T(0, 0), T(0, 0))
Evening == Rule(T(16, 0), T(23, 30))
RuleChoices == {NineToFive, Overnight, AllDay, Evening}
DayChoices == {0, 1}
Rows == {Row(d, r) : d \in DayChoices, r \in RuleChoices}
EveryDay(r) == [i \in 1..7 |-> Row(i - 1, r)]

(* no row at all, one rule on every weekday, a rule that is never open, or *)
(* up to MaxRules rows                                                    *)
Noon == Rule(T(12, 0), T(12, 0))
BhTables ==
    {<<>>} \cup {EveryDay(r) : r \in RuleChoices \cup {Noon}}
           \cup {<<Row(1, Noon)>>}
           \cup UNION {[1..k -> Rows] : k \in 1..MaxRules}

Kolkata == 5 * HOUR + 30 * MINUTE
TzTables == {<<>>, <<Chicago>>, <<Kolkata>>}

NoCall == [fn |-> "none"]
(* the generate_report_optimized thread, where a store id names a pool task *)
Orchestrator == 0

(* os.environ before any assignment: SUPPRESS_DEBUG is not set *)
NoEnviron == [SUPPRESS_DEBUG |-> [value |-> "unset", set_by |-> -1]]

(* no file at the report's path *)
NoFile == [exists |-> FALSE, written |-> FALSE, rows |-> <<>>]

(* get_report has not been called *)
NoResponse == [kind |-> "none", status |-> "", file |-> NoFile]

IdleReport ==
    /\ reports = [status |-> "Running", file_path |-> ""]
    /\ pc = "not_started"
    /\ store_ids = <<>>
    /\ now = Utc(0)
    /\ pending = <<>>
    /\ worker = <<>>
    /\ future = <<>>
    /\ results = <<>>
    /\ failed_stores = <<>>
    /\ csv_file = NoFile
    /\ timeout_elapsed = FALSE
    /\ sessions = <<>>
    /\ db = <<>>
    /\ environ = NoEnviron
    /\ suppress_debug = <<>>
    /\ response = NoResponse

(* a test calls metrics_for_store(session, store_id, now) *)
CallMetricsForStore ==
    /\ ret.fn = "none"
    /\ ret' = [fn |-> "metrics_for_store",
               value |-> metrics_for_store(store_status, business_hours,
                                           store_timezone, call.store_id, call.now)]
    /\ UNCHANGED <<dbVars, reportVars, call>>

(* _status_segments(session, store_id, ws, we) on a window of its own *)
CallStatusSegments(ws, we) ==
    /\ ret.fn = "none"
    /\ ret' = [fn |-> "_status_segments", ws |-> ws, we |-> we,
               value |-> _status_segments(store_status[call.store_id], ws, we)]
    /\ UNCHANGED <<dbVars, reportVars, call>>

(* expand_business_hours_to_utc(tz_str, bh_map, ws, we) on a window of its own *)
CallExpandBusinessHours(ws, we) ==
    /\ ret.fn = "none"
    /\ ret' = [fn |-> "expand_business_hours_to_utc", ws |-> ws, we |-> we,
               value |-> expand_business_hours_to_utc(
                             get_store_timezone_str(store_timezone, call.store_id),
                             get_business_hours_map(business_hours, call.store_id),
                             ws, we)]
    /\ UNCHANGED <<dbVars, reportVars, call>>

(* Timeline reconstruction: many observation sequences, no business hours. *)
NowsTimeline == {Utc(N0), NaiveDt(N0 - 30 * MINUTE)}

InitTimeline ==
    /\ \E obs \in ObsSeqs(MaxObs) : store_status = [s \in {1} |-> obs]
    /\ business_hours = [s \in {1} |-> <<>>]
    /\ store_timezone = [s \in {1} |-> <<>>]
    /\ \E n \in NowsTimeline : call = [store_id |-> 1, now |-> n]
    /\ ret = NoCall
    /\ IdleReport

NextTimeline ==
    \/ CallMetricsForStore
    \/ \E w \in Windows : CallStatusSegments(w[1], w[2])

SpecTimeline == InitTimeline /\ [][NextTimeline]_vars

(* Business hours: many schedules and zones, a few observation sequences. *)
NowsHours ==
    {Utc(N0), NaiveDt(N0 + 10 * HOUR), InZone(N0 - 3 * HOUR - 1, Chicago),
     Utc(N0 + 2 * HOUR), Utc(N0 + 6 * HOUR + 30 * MINUTE + 7)}

ObsAround(t) ==
    {<<>>, <<[ts |-> t - DAY, status |-> "active"]>>,
     <<[ts |-> t - 8 * DAY, status |-> "inactive"],
       [ts |-> t - 20 * MINUTE, status |-> "active"]>>}

InitHours ==
    /\ \E n \in NowsHours :
          /\ call = [store_id |-> 1, now |-> n]
          /\ \E obs \in ObsAround(to_aware_utc(n)) : store_status = [s \in {1} |-> obs]
    /\ \E bh \in BhTables : business_hours = [s \in {1} |-> bh]
    /\ \E tz \in TzTables : store_timezone = [s \in {1} |-> tz]
    /\ ret = NoCall
    /\ IdleReport

NextHours ==
    \/ CallMetricsForStore
    \/ \E w \in Windows : CallExpandBusinessHours(w[1], w[2])

SpecHours == InitHours /\ [][NextHours]_vars

----------------------------------------------------------------------------
(* app/core/report_generator.py and app/config.py *)

MaxStores == 3                 \* stores with observations in the data set
max_parallel_workers == 2      \* pool size; Settings.max_parallel_workers is set from MAX_WORKERS

(* Settings.is_production: ENV defaults to "dev" *)
is_production == FALSE

(* SessionLocal(): a new session, open, not yet used for a query *)
SessionLocal(thread) == [opened_by |-> thread, open |-> TRUE, used_by |-> {}]

(* a query through session handle h made by thread *)
query(pool, h, thread) ==
    [pool EXCEPT ![h].used_by = pool[h].used_by \cup {thread}]

(* session.close() on handle h *)
close(pool, h) == [pool EXCEPT ![h].open = FALSE]

(* the statuses written by the except branch, f"Failed: {str(e)}" *)
FailedQuery == "Failed: query error"
FailedNoUtc == "Failed: 'function' object has no attribute 'utc'"

(* get_dataset_now: the latest observation of the whole table.  With no   *)
(* observation it evaluates timezone.utc, where timezone is the function  *)
(* imported from pytz, and that raises AttributeError.                    *)
get_dataset_now(table) ==
    LET stamps == UNION {{table[s][i].ts : i \in DOMAIN table[s]} : s \in DOMAIN table}
    IN IF stamps = {} THEN [exception |-> "AttributeError"]
       ELSE [value |-> Utc(CHOOSE t \in stamps : \A u \in stamps : u <= t)]

(* db.query(StoreStatus.store_id).distinct(): the stores that have a row *)
distinct_store_ids(table) == {s \in DOMAIN table : table[s] # <<>>}

Orderings(S) ==
    {o \in [1..Cardinality(S) -> S] : \A i, j \in DOMAIN o : i # j => o[i] # o[j]}

(* the dict appended to results for one store *)
result_row(store_id, metrics) ==
    [store_id |-> store_id,
     uptime_last_hour |-> metrics.uptime_last_hour,
     uptime_last_day |-> metrics.uptime_last_day,
     uptime_last_week |-> metrics.uptime_last_week,
     downtime_last_hour |-> metrics.downtime_last_hour,
     downtime_last_day |-> metrics.downtime_last_day,
     downtime_last_week |-> metrics.downtime_last_week]

(* results.sort(key=lambda x: x["store_id"]): stable, ascending *)
RECURSIVE insert_by_store_id(_, _)
insert_by_store_id(sorted, row) ==
    IF sorted = <<>> THEN <<row>>
    ELSE IF sorted[Len(sorted)].store_id <= row.store_id THEN Append(sorted, row)
    ELSE Append(insert_by_store_id(SubSeq(sorted, 1, Len(sorted) - 1), row),
                sorted[Len(sorted)])

RECURSIVE sort_by_store_id(_)
sort_by_store_id(rows) ==
    IF rows = <<>> THEN <<>>
    ELSE insert_by_store_id(sort_by_store_id(SubSeq(rows, 1, Len(rows) - 1)),
                            rows[Len(rows)])

sort_results_skipped(rows) == rows

sort_results(rows) == sort_by_store_id(rows)

SeqToSet(q) == {q[i] : i \in DOMAIN q}
Running == {s \in DOMAIN worker : worker[s] \in {"session_open", "env_set", "finally"}}
Finished == {s \in DOMAIN future : future[s].state = "finished"}
Collected == {results[i].store_id : i \in DOMAIN results} \cup SeqToSet(failed_stores)

(* the data of store s in the report runs *)
StoreObs(s) ==
    <<[ts |-> N0 - s * HOUR, status |-> IF s % 2 = 1 THEN "active" ELSE "inactive"]>>

(* trigger_report has inserted the row and started the thread *)
Init ==
    /\ \E S \in SUBSET (1..MaxStores) :
          /\ store_status = [s \in 1..MaxStores |-> IF s \in S THEN StoreObs(s) ELSE <<>>]
          /\ business_hours = [s \in 1..MaxStores |-> <<>>]
          /\ store_timezone = [s \in 1..MaxStores |-> <<>>]
    /\ reports = [status |-> "Running", file_path |-> ""]
    /\ call = [store_id |-> 0, now |-> Utc(0)]
    /\ ret = NoCall
    /\ pc = "list_stores"
    /\ store_ids = <<>>
    /\ now = Utc(0)
    /\ pending = <<>>
    /\ worker = <<>>
    /\ future = <<>>
    /\ results = <<>>
    /\ failed_stores = <<>>
    /\ csv_file = NoFile
    /\ timeout_elapsed = FALSE
    /\ sessions = <<>>
    /\ db = <<>>
    /\ environ = NoEnviron
    /\ suppress_debug = <<>>
    /\ response = NoResponse

(* a session of the orchestrator that is opened, queried and closed within *)
(* one step                                                                *)
OrchestratorSession ==
    close(query(Append(sessions, SessionLocal(Orchestrator)),
                Len(sessions) + 1, Orchestrator),
          Len(sessions) + 1)

(* lines 93-102: list the stores, take the dataset's now, close the session *)
ListStores ==
    /\ pc = "list_stores"
    /\ "value" \in DOMAIN get_dataset_now(store_status)
    /\ \E o \in Orderings(distinct_store_ids(store_status)) : store_ids' = o
    /\ now' = get_dataset_now(store_status).value
    /\ sessions' = OrchestratorSession
    /\ pc' = "submit"
    /\ UNCHANGED <<dbVars, reports, call, ret, pending, worker, future, results,
                   failed_stores, csv_file, timeout_elapsed, db, environ,
                   suppress_debug, response>>

(* lines 97, 165-176: the listing query raises; the report is marked failed *)
ListStoresFails ==
    /\ pc = "list_stores"
    /\ reports' = [reports EXCEPT !.status = FailedQuery]
    /\ sessions' = OrchestratorSession
    /\ pc' = "raised"
    /\ UNCHANGED <<dbVars, call, ret, store_ids, now, pending, worker, future,
                   results, failed_stores, csv_file, timeout_elapsed, db, environ,
                   suppress_debug, response>>

(* lines 101, 165-176: get_dataset_now raises; the report is marked failed *)
DatasetNowRaises ==
    /\ pc = "list_stores"
    /\ "exception" \in DOMAIN get_dataset_now(store_status)
    /\ reports' = [reports EXCEPT !.status = FailedNoUtc]
    /\ sessions' = OrchestratorSession
    /\ pc' = "raised"
    /\ UNCHANGED <<dbVars, call, ret, store_ids, now, pending, worker, future,
                   results, failed_stores, csv_file, timeout_elapsed, db, environ,
                   suppress_debug, response>>

(* lines 110-115: one future per store, queued in the order of store_ids *)
SubmitAll ==
    /\ pc = "submit"
    /\ pending' = store_ids
    /\ worker' = [s \in SeqToSet(store_ids) |-> "queued"]
    /\ future' = [s \in SeqToSet(store_ids) |-> [state |-> "pending"]]
    /\ db' = [s \in SeqToSet(store_ids) |-> 0]
    /\ suppress_debug' = [s \in SeqToSet(store_ids) |-> ""]
    /\ pc' = "as_completed"
    /\ UNCHANGED <<dbVars, reports, call, ret, store_ids, now, results,
                   failed_stores, csv_file, timeout_elapsed, sessions, environ,
                   response>>

(* a pool thread takes the next task; process_store opens its session *)
StartTask ==
    /\ pending # <<>>
    /\ Cardinality(Running) < max_parallel_workers
    /\ worker' = [worker EXCEPT ![Head(pending)] = "session_open"]
    /\ future' = [future EXCEPT ![Head(pending)] = [state |-> "running"]]
    /\ sessions' = Append(sessions, SessionLocal(Head(pending)))
    /\ db' = [db EXCEPT ![Head(pending)] = Len(sessions) + 1]
    /\ pending' = Tail(pending)
    /\ UNCHANGED <<dbVars, reports, call, ret, pc, store_ids, now, results,
                   failed_stores, csv_file, timeout_elapsed, environ,
                   suppress_debug, response>>

(* line 184: os.environ['SUPPRESS_DEBUG'] = '1' if settings.is_production else '0' *)
SetSuppressDebug(s) ==
    /\ worker[s] = "session_open"
    /\ worker' = [worker EXCEPT ![s] = "env_set"]
    /\ environ' = [environ EXCEPT !.SUPPRESS_DEBUG =
                      [value |-> IF is_production THEN "1" ELSE "0", set_by |-> s]]
    /\ UNCHANGED <<dbVars, reports, call, ret, pc, store_ids, now, pending, future,
                   results, failed_stores, csv_file, timeout_elapsed, sessions, db,
                   suppress_debug, response>>

(* line 186: metrics_for_store reads SUPPRESS_DEBUG, queries through db and *)
(* returns                                                                  *)
ComputeMetrics(s) ==
    /\ worker[s] = "env_set"
    /\ worker' = [worker EXCEPT ![s] = "finally"]
    /\ suppress_debug' = [suppress_debug EXCEPT ![s] = environ.SUPPRESS_DEBUG.value]
    /\ sessions' = query(sessions, db[s], s)
    /\ future' = [future EXCEPT ![s] =
                     [state |-> "running", outcome |-> "result",
                      metrics |-> metrics_for_store(store_status, business_hours,
                                                    store_timezone, s, now)]]
    /\ UNCHANGED <<dbVars, reports, call, ret, pc, store_ids, now, pending,
                   results, failed_stores, csv_file, timeout_elapsed, db, environ,
                   response>>

(* lines 187-189: metrics_for_store raises (a query fails); it is re-raised *)
ComputeRaises(s) ==
    /\ worker[s] = "env_set"
    /\ worker' = [worker EXCEPT ![s] = "finally"]
    /\ suppress_debug' = [suppress_debug EXCEPT ![s] = environ.SUPPRESS_DEBUG.value]
    /\ sessions' = query(sessions, db[s], s)
    /\ future' = [future EXCEPT ![s] = [state |-> "running", outcome |-> "exception"]]
    /\ UNCHANGED <<dbVars, reports, call, ret, pc, store_ids, now, pending,
                   results, failed_stores, csv_file, timeout_elapsed, db, environ,
                   response>>

(* lines 190-191 with the close moved out of the finally clause, to the end *)
(* of the try block                                                         *)
CloseSessionOnReturnOnly(s) ==
    /\ worker[s] = "finally"
    /\ worker' = [worker EXCEPT ![s] = "exited"]
    /\ sessions' = IF future[s].outcome = "result" THEN close(sessions, db[s])
                   ELSE sessions
    /\ future' = [future EXCEPT ![s].state = "finished"]
    /\ UNCHANGED <<dbVars, reports, call, ret, pc, store_ids, now, pending,
                   results, failed_stores, csv_file, timeout_elapsed, db, environ,
                   suppress_debug, response>>

(* lines 190-191: db.close(), and the future gets its result or exception *)
CloseSession(s) ==
    /\ worker[s] = "finally"
    /\ worker' = [worker EXCEPT ![s] = "exited"]
    /\ sessions' = close(sessions, db[s])
    /\ future' = [future EXCEPT ![s].state = "finished"]
    /\ UNCHANGED <<dbVars, reports, call, ret, pc, store_ids, now, pending,
                   results, failed_stores, csv_file, timeout_elapsed, db, environ,
                   suppress_debug, response>>

(* lines 118-133, with the handler of a raised future replaced by a re-raise *)
CollectAborting(s) ==
    /\ pc = "as_completed"
    /\ s \in Finished \ Collected
    /\ IF future[s].outcome = "result"
       THEN /\ results' = Append(results, result_row(s, future[s].metrics))
            /\ UNCHANGED <<reports, pc, failed_stores>>
       ELSE /\ reports' = [reports EXCEPT !.status = FailedQuery]
            /\ pc' = "raised"
            /\ UNCHANGED <<results, failed_stores>>
    /\ UNCHANGED <<dbVars, call, ret, store_ids, now, pending, worker, future,
                   csv_file, timeout_elapsed, procVars, response>>

(* lines 118-133: as_completed yields a finished future; its row is appended, *)
(* or its store is noted as failed                                            *)
Collect(s) ==
    /\ pc = "as_completed"
    /\ s \in Finished \ Collected
    /\ IF future[s].outcome = "result"
       THEN /\ results' = Append(results, result_row(s, future[s].metrics))
            /\ UNCHANGED failed_stores
       ELSE /\ failed_stores' = Append(failed_stores, s)
            /\ UNCHANGED results
    /\ UNCHANGED <<dbVars, reports, call, ret, pc, store_ids, now, pending, worker,
                   future, csv_file, timeout_elapsed, procVars, response>>

(* lines 118, 134-136: every future was yielded; the pool shuts down and the *)
(* results are sorted                                                        *)
SortResults ==
    /\ pc = "as_completed"
    /\ Collected = SeqToSet(store_ids)
    /\ results' = sort_results(results)
    /\ pc' = "open_csv"
    /\ UNCHANGED <<dbVars, reports, call, ret, store_ids, now, pending, worker,
                   future, failed_stores, csv_file, timeout_elapsed, procVars,
                   response>>

(* lines 139-143: open(file_path, 'w') creates the file, empty *)
OpenCsv ==
    /\ pc = "open_csv"
    /\ csv_file' = [exists |-> TRUE, written |-> FALSE, rows |-> <<>>]
    /\ pc' = "write_csv"
    /\ UNCHANGED <<dbVars, reports, call, ret, store_ids, now, pending, worker,
                   future, results, failed_stores, timeout_elapsed, procVars,
                   response>>

(* lines 144-150: the rows go to the CSV writer and the file is closed *)
WriteCsv ==
    /\ pc = "write_csv"
    /\ csv_file' = [exists |-> TRUE, written |-> TRUE, rows |-> results]
    /\ pc' = "update_report"
    /\ UNCHANGED <<dbVars, reports, call, ret, store_ids, now, pending, worker,
                   future, results, failed_stores, timeout_elapsed, procVars,
                   response>>

(* lines 153-158 run while the file is still open for writing *)
UpdateReportBeforeWrite ==
    /\ pc \in {"write_csv", "update_report"}
    /\ reports' = [status |-> "Complete", file_path |-> "reports/report_id.csv"]
    /\ sessions' = OrchestratorSession
    /\ pc' = "returned"
    /\ UNCHANGED <<dbVars, call, ret, store_ids, now, pending, worker, future,
                   results, failed_stores, csv_file, timeout_elapsed, db, environ,
                   suppress_debug, response>>

(* lines 153-158, 174-176: a new session; status and file_path are set in one *)
(* commit; the session is closed                                              *)
UpdateReport ==
    /\ pc = "update_report"
    /\ reports' = [status |-> "Complete", file_path |-> "reports/report_id.csv"]
    /\ sessions' = OrchestratorSession
    /\ pc' = "returned"
    /\ UNCHANGED <<dbVars, call, ret, store_ids, now, pending, worker, future,
                   results, failed_stores, csv_file, timeout_elapsed, db, environ,
                   suppress_debug, response>>

(* report_generation_timeout seconds have passed since the thread started *)
TimeoutElapses ==
    /\ ~timeout_elapsed
    /\ pc \notin {"returned", "raised"}
    /\ timeout_elapsed' = TRUE
    /\ UNCHANGED <<dbVars, reports, call, ret, pc, store_ids, now, pending, worker,
                   future, results, failed_stores, csv_file, procVars, response>>

(* routes.py lines 26-53: get_report reads the row of the report in one     *)
(* query and answers from it                                                *)
GetReport ==
    /\ response' =
          IF reports.status = "Running"
          THEN [kind |-> "json", status |-> "Running", file |-> NoFile]
          ELSE IF reports.status = "Complete" /\ reports.file_path # ""
          THEN IF ~csv_file.exists
               THEN [kind |-> "404", status |-> "Report file not found", file |-> NoFile]
               ELSE [kind |-> "FileResponse", status |-> "", file |-> csv_file]
          ELSE [kind |-> "json", status |-> reports.status, file |-> NoFile]
    /\ UNCHANGED <<dbVars, reports, call, ret, pc, store_ids, now, pending, worker,
                   future, results, failed_stores, csv_file, timeout_elapsed,
                   procVars>>

(* the steps of the generate_report_optimized thread itself *)
OrchestratorStep ==
    \/ ListStores
    \/ ListStoresFails
    \/ DatasetNowRaises
    \/ SubmitAll
    \/ \E s \in 1..MaxStores : Collect(s)
    \/ SortResults
    \/ OpenCsv
    \/ WriteCsv
    \/ UpdateReport

(* the steps of the pool threads *)
WorkerStep ==
    \/ StartTask
    \/ \E s \in DOMAIN worker :
          SetSuppressDebug(s) \/ ComputeMetrics(s) \/ ComputeRaises(s) \/ CloseSession(s)

Next == OrchestratorStep \/ WorkerStep \/ TimeoutElapses \/ GetReport

Spec == Init /\ [][Next]_vars

----------------------------------------------------------------------------
(* Properties of the timeline reconstruction *)

IsMetrics == ret.fn = "metrics_for_store"
IsSegments == ret.fn = "_status_segments"
IsExpand == ret.fn = "expand_business_hours_to_utc"

TheObs == store_status[call.store_id]
TheRows == business_hours[call.store_id]
NowUtc == to_aware_utc(call.now)

(* instants at which a timeline is probed: every boundary, and its neighbours *)
ProbeTimes ==
    LET marks == ObsTimes \cup WinTimes \cup {NowUtc, NowUtc - HOUR, NowUtc - DAY,
                                              NowUtc - WEEK}
    IN marks \cup {t + 1 : t \in marks} \cup {t - 1 : t \in marks}

(* the status forward-fill gives instant t: the last observation at or      *)
(* before t, else the first observation after ws                            *)
FilledStatus(obs, ws, t) ==
    LET upto == SelectSeq(obs, LAMBDA o : o.ts <= t)
        later == SelectSeq(obs, LAMBDA o : o.ts > ws)
    IN IF upto # <<>> THEN upto[Len(upto)].status ELSE later[1].status

ForwardFilled(rows, ws, we, segs) ==
    LET obs == SelectSeq(rows, LAMBDA o : o.ts <= we)
    IN obs # <<>> =>
        \A t \in ProbeTimes :
            (ws <= t /\ t < we) =>
                /\ \E i \in DOMAIN segs : segs[i][1] <= t /\ t < segs[i][2]
                /\ \A i \in DOMAIN segs :
                      (segs[i][1] <= t /\ t < segs[i][2])
                          => segs[i][3] = FilledStatus(obs, ws, t)

MixedHour ==
    TheObs = <<[ts |-> NowUtc - 60 * MINUTE, status |-> "active"],
               [ts |-> NowUtc - 30 * MINUTE, status |-> "inactive"]>>

(* C1: every instant of the window lies in a segment whose status is that of *)
(* the last observation at or before it, or of the first observation after   *)
(* ws when there is none; active at T-60min and inactive at T-30min give     *)
(* 30 minutes up and 30 minutes down in the last hour.                       *)
C1_ForwardFill ==
    /\ IsSegments => ForwardFilled(TheObs, ret.ws, ret.we, ret.value)
    /\ IsMetrics =>
          \A label \in Labels :
              LET m == ret.value.window[label]
              IN ForwardFilled(TheObs, m.ws, m.we, m.segments)
    /\ (IsMetrics /\ MixedHour /\ TheRows = <<>>) =>
          /\ ret.value.uptime_last_hour = 30
          /\ ret.value.downtime_last_hour = 30

(* a timeline extrapolated backward from its first observation, with a change *)
C1_Witness ==
    /\ IsSegments
    /\ Len(ret.value) >= 2
    /\ TheObs # <<>>
    /\ TheObs[1].ts > ret.ws
    /\ ret.value[1][3] = TheObs[1].status

Partitions(ws, we, segs) ==
    /\ segs # <<>>
    /\ segs[1][1] = ws
    /\ \A i \in 1..(Len(segs) - 1) : segs[i + 1][1] = segs[i][2]
    /\ segs[Len(segs)][2] = we

(* C2: the segments of a window start at ws, end at we, and each starts     *)
(* where the previous one ends.                                             *)
C2_Partition ==
    /\ IsSegments => Partitions(ret.ws, ret.we, ret.value)
    /\ IsMetrics =>
          \A label \in Labels :
              LET m == ret.value.window[label]
              IN Partitions(m.ws, m.we, m.segments)

(* two segments, the second closed by a change of status exactly at we *)
C2_Witness ==
    /\ IsSegments
    /\ Len(ret.value) = 2
    /\ \E i \in DOMAIN TheObs :
          TheObs[i].ts = ret.we /\ TheObs[i].status # ret.value[2][3]

FullWindow(label) ==
    IF label = "hour" THEN 60 ELSE IF label = "day" THEN 2400 ELSE 16800

Uptime(label) ==
    IF label = "hour" THEN ret.value.uptime_last_hour
    ELSE IF label = "day" THEN ret.value.uptime_last_day
    ELSE ret.value.uptime_last_week

Downtime(label) ==
    IF label = "hour" THEN ret.value.downtime_last_hour
    ELSE IF label = "day" THEN ret.value.downtime_last_day
    ELSE ret.value.downtime_last_week

(* C8: one active observation strictly before a window and no business-hours *)
(* rule give the full window as uptime and no downtime; with the observation *)
(* one day before now, all three windows are full.                           *)
C8_AlwaysActive ==
    (IsMetrics /\ Len(TheObs) = 1 /\ TheObs[1].status = "active" /\ TheRows = <<>>) =>
        /\ \A label \in Labels :
              TheObs[1].ts < ret.value.window[label].ws =>
                  Uptime(label) = FullWindow(label) /\ Downtime(label) = 0
        /\ TheObs[1].ts = NowUtc - DAY =>
              \A label \in Labels :
                  Uptime(label) = FullWindow(label) /\ Downtime(label) = 0

C8_Witness ==
    /\ IsMetrics
    /\ TheObs = <<[ts |-> NowUtc - 8 * DAY, status |-> "active"]>>
    /\ ret.value.uptime_last_week = 16800
    /\ ret.value.uptime_last_hour = 60

----------------------------------------------------------------------------
(* Properties of the business-hours accounting *)

TheZone == get_store_timezone_str(store_timezone, call.store_id)

(* C3 as stated: no observation at all gives no uptime and the whole window *)
(* as downtime, for every window.                                           *)
C3_NoObservationsFullWindow ==
    (IsMetrics /\ TheObs = <<>>) =>
        \A label \in Labels :
            Uptime(label) = 0 /\ Downtime(label) = FullWindow(label)

(* C3 amended: no observation at all and no business-hours row give no      *)
(* uptime and the whole window as downtime, for every window.               *)
C3_NoObservationsNoRules ==
    (IsMetrics /\ TheObs = <<>> /\ TheRows = <<>>) =>
        \A label \in Labels :
            Uptime(label) = 0 /\ Downtime(label) = FullWindow(label)

C3_Witness ==
    /\ IsMetrics
    /\ TheObs = <<>>
    /\ TheRows = <<>>
    /\ ret.value.downtime_last_week = 16800
    /\ ret.value.window["week"].segments
           = << <<NowUtc - WEEK, NowUtc, "inactive">> >>

(* C4: in a zone at UTC-5, with 09:00-17:00 local on every weekday and one  *)
(* active observation a day before now, the last day has 8.00 hours of      *)
(* uptime and no downtime, whatever now is.                                 *)
C4_BusinessHoursClipping ==
    (/\ IsMetrics
     /\ TheZone = Chicago
     /\ TheRows = EveryDay(NineToFive)
     /\ TheObs = <<[ts |-> NowUtc - DAY, status |-> "active"]>>) =>
        /\ ret.value.uptime_last_day = 800
        /\ ret.value.downtime_last_day = 0

(* the day window cuts a business day in two: now is 13:30:07 local *)
C4_Witness ==
    /\ IsMetrics
    /\ store_timezone[call.store_id] = <<Chicago>>
    /\ TheRows = EveryDay(NineToFive)
    /\ TheObs = <<[ts |-> NowUtc - DAY, status |-> "active"]>>
    /\ Len(ret.value.window["day"].bh_intervals_utc) = 2
    /\ ret.value.uptime_last_day = 800

(* C9: without any business-hours row the expansion is the window itself,   *)
(* whatever the zone, and the whole window is accounted.                    *)
C9_NoRulesOpenAlways ==
    /\ (IsExpand /\ TheRows = <<>>) => ret.value = << <<ret.ws, ret.we>> >>
    /\ (IsMetrics /\ TheRows = <<>>) =>
          \A label \in Labels :
              LET m == ret.value.window[label]
              IN /\ m.bh_intervals_utc = << <<m.ws, m.we>> >>
                 /\ m.up_s + m.down_s = m.we - m.ws

C9_Witness ==
    /\ IsExpand
    /\ TheRows = <<>>
    /\ store_timezone[call.store_id] = <<Kolkata>>
    /\ ret.value = << <<N0 - DAY, N0>> >>

(* the local dates on which an occurrence can touch the window *)
DatesAround(ws, we) ==
    (local_date(utc_to_local(ws, TheZone)) - 2)..(local_date(utc_to_local(we, TheZone)) + 2)

OnlyRule(r) ==
    \A i \in DOMAIN TheRows :
        TheRows[i].start_t = r.start_t /\ TheRows[i].end_t = r.end_t

(* C10: an overnight occurrence that lies inside the window comes out as one *)
(* interval from d@start_local to (d+1)@end_local: one interval covers the   *)
(* whole span, and it is exactly that span when no other rule is set.         *)
C10_OvernightSingleInterval ==
    IsExpand =>
        \A i \in DOMAIN TheRows : \A d \in DatesAround(ret.ws, ret.we) :
            LET r == TheRows[i]
                s == local_to_utc(d, r.start_t, TheZone)
                e == local_to_utc(d + 1, r.end_t, TheZone)
            IN (/\ r.start_t > r.end_t
                /\ weekday(d) = r.day_of_week
                /\ ret.ws <= s
                /\ e <= ret.we) =>
                   /\ \E k \in DOMAIN ret.value :
                         ret.value[k][1] <= s /\ e <= ret.value[k][2]
                   /\ OnlyRule(r) => \E k \in DOMAIN ret.value : ret.value[k] = <<s, e>>

(* Monday 22:00 to Tuesday 06:00 in Chicago, inside the last day before N0 *)
C10_Witness ==
    /\ IsExpand
    /\ TheRows = <<Row(0, Overnight)>>
    /\ TheZone = Chicago
    /\ ret.ws = N0 - DAY
    /\ ret.we = N0
    /\ ret.value = << <<N0 - 9 * HOUR, N0 - HOUR>> >>

----------------------------------------------------------------------------
(* Properties of the parallel report generation *)

Listed == SeqToSet(store_ids)
Raised == {s \in Finished : future[s].outcome = "exception"}
CsvIds == {csv_file.rows[i].store_id : i \in DOMAIN csv_file.rows}

(* the stores of S, smallest id first *)
Ascending(S) ==
    CHOOSE q \in Orderings(S) : \A i, j \in DOMAIN q : i < j => q[i] < q[j]

(* what the data alone determines: a row per store that did not fail *)
ExpectedRows ==
    LET ok == Ascending(Listed \ Raised)
    IN [i \in DOMAIN ok |->
           result_row(ok[i], metrics_for_store(store_status, business_hours,
                                               store_timezone, ok[i],
                                               get_dataset_now(store_status).value))]

(* C5: the rows handed to the CSV writer are in strictly ascending store id *)
(* (so no id twice), and they are the rows the data determines, whatever    *)
(* the order in which the futures completed.                                *)
C5_SortedDeterministic ==
    csv_file.written =>
        /\ \A i \in 1..(Len(csv_file.rows) - 1) :
              csv_file.rows[i].store_id < csv_file.rows[i + 1].store_id
        /\ csv_file.rows = ExpectedRows

(* three rows written although the stores were listed and queued in         *)
(* descending order                                                         *)
C5_Witness ==
    /\ csv_file.written
    /\ store_ids = <<3, 2, 1>>
    /\ Len(csv_file.rows) = 3
    /\ csv_file.rows[1].store_id = 1

(* C6: stores whose process_store raises are left out and nothing else      *)
(* happens: the report is never marked failed once the stores are submitted, *)
(* and the finished report is Complete with one row for each store that did *)
(* not raise.                                                               *)
C6_FailureIsolation ==
    /\ (reports.status \in {FailedQuery, FailedNoUtc} \/ pc = "raised") => DOMAIN future = {}
    /\ pc = "returned" =>
          /\ reports.status = "Complete"
          /\ CsvIds = Listed \ Raised
          /\ Len(csv_file.rows) = Cardinality(Listed \ Raised)
          /\ SeqToSet(failed_stores) = Raised

C6_Witness ==
    /\ pc = "returned"
    /\ reports.status = "Complete"
    /\ Cardinality(Raised) = 2
    /\ Len(csv_file.rows) = 1

(* C7: once the report timeout has elapsed with computations in flight, the *)
(* orchestrator is not left waiting for them: it can take a step.           *)
C7_TimeoutStopsWaiting ==
    (timeout_elapsed /\ pc = "as_completed" /\ Running # {}) =>
        ENABLED OrchestratorStep

----------------------------------------------------------------------------
(* Properties of the business-hours expansion *)

(* the part of [s, e) inside the window of the call, as an interval *)
Clipped(s, e) == <<Max(s, ret.ws), Min(e, ret.we)>>

(* C11: a 00:00-00:00 rule on weekday w stands, on every date d of that     *)
(* weekday, for the whole local day from d@00:00 to (d+1)@00:00 (24 hours),  *)
(* clipped to the window: what of it lies in the window is inside one        *)
(* returned interval, and with that rule alone the returned intervals are    *)
(* exactly those clipped days.                                               *)
C11_MidnightRuleIsFullDay ==
    IsExpand =>
        \A i \in DOMAIN TheRows : \A d \in DatesAround(ret.ws, ret.we) :
            LET r == TheRows[i]
                s == local_to_utc(d, T(0, 0), TheZone)
                e == local_to_utc(d + 1, T(0, 0), TheZone)
                c == Clipped(s, e)
            IN (/\ r.start_t = T(0, 0)
                /\ r.end_t = T(0, 0)
                /\ weekday(d) = r.day_of_week
                /\ c[1] < c[2]) =>
                   /\ e - s = 24 * HOUR
                   /\ \E k \in DOMAIN ret.value :
                         ret.value[k][1] <= c[1] /\ c[2] <= ret.value[k][2]
                   /\ Len(TheRows) = 1 => \E k \in DOMAIN ret.value : ret.value[k] = c

(* Monday as a whole day in Chicago, cut by the start of the last day before N0 *)
C11_Witness ==
    /\ IsExpand
    /\ TheRows = <<Row(0, AllDay)>>
    /\ TheZone = Chicago
    /\ ret.ws = N0 - DAY
    /\ ret.we = N0
    /\ ret.value = << <<N0 - DAY, N0 - 7 * HOUR>> >>

Normalized(ws, we, intervals) ==
    /\ \A k \in DOMAIN intervals :
          /\ ws <= intervals[k][1]
          /\ intervals[k][1] < intervals[k][2]
          /\ intervals[k][2] <= we
    /\ \A k \in 1..(Len(intervals) - 1) : intervals[k][2] < intervals[k + 1][1]

(* C12: the returned intervals lie in the window, none is empty, and each   *)
(* starts strictly after the previous one ends (ascending, nothing          *)
(* overlapping or touching left unmerged).                                  *)
C12_NormalizedAndClipped ==
    /\ IsExpand => Normalized(ret.ws, ret.we, ret.value)
    /\ IsMetrics =>
          \A label \in Labels :
              LET m == ret.value.window[label]
              IN Normalized(m.ws, m.we, m.bh_intervals_utc)

(* Monday 09:00-17:00 and 16:00-23:30, listed latest first, come out as one *)
C12_Witness ==
    /\ IsExpand
    /\ TheRows = <<Row(0, Evening), Row(0, NineToFive)>>
    /\ TheZone = Chicago
    /\ ret.ws = N0 - WEEK
    /\ ret.we = N0
    /\ ret.value = << <<N0 - DAY + 2 * HOUR, N0 - 7 * HOUR - 30 * MINUTE>> >>

----------------------------------------------------------------------------
(* Properties of the unit conversion and of the accumulation *)

WholeMinutes(seconds, minutes) ==
    /\ minutes \in Nat
    /\ MINUTE * minutes <= seconds
    /\ seconds < MINUTE * (minutes + 1)

(* hundredths is a nearest hundredth of an hour to the seconds *)
NearestHundredth(seconds, hundredths) ==
    /\ hundredths \in Nat
    /\ 2 * (100 * seconds - HOUR * hundredths) <= HOUR
    /\ 2 * (HOUR * hundredths - 100 * seconds) <= HOUR

(* C16: the hour fields are the whole minutes in the accumulated seconds,   *)
(* never rounded up; the day and week fields are the hours to the nearest   *)
(* hundredth.                                                               *)
C16_UnitConversion ==
    IsMetrics =>
        LET m == ret.value.window
        IN /\ WholeMinutes(m["hour"].up_s, ret.value.uptime_last_hour)
           /\ WholeMinutes(m["hour"].down_s, ret.value.downtime_last_hour)
           /\ NearestHundredth(m["day"].up_s, ret.value.uptime_last_day)
           /\ NearestHundredth(m["day"].down_s, ret.value.downtime_last_day)
           /\ NearestHundredth(m["week"].up_s, ret.value.uptime_last_week)
           /\ NearestHundredth(m["week"].down_s, ret.value.downtime_last_week)

(* 3599 seconds up are 59 minutes; 86399 seconds up are 24.00 hours *)
C16_Witness ==
    /\ IsMetrics
    /\ ret.value.window["hour"].up_s = 3599
    /\ ret.value.uptime_last_hour = 59
    /\ ret.value.window["day"].up_s = 86399
    /\ ret.value.uptime_last_day = 2400

RECURSIVE TotalLength(_)
TotalLength(intervals) ==
    IF intervals = <<>> THEN 0
    ELSE (intervals[1][2] - intervals[1][1]) + TotalLength(Tail(intervals))

(* C17: when the segments partition the window and the business-hours       *)
(* intervals are normalized inside it, the active and inactive seconds add  *)
(* up to the total length of the business-hours intervals.                  *)
C17_Conservation ==
    IsMetrics =>
        \A label \in Labels :
            LET m == ret.value.window[label]
            IN (/\ m.bh_intervals_utc # <<>>
                /\ Partitions(m.ws, m.we, m.segments)
                /\ Normalized(m.ws, m.we, m.bh_intervals_utc)) =>
                   m.up_s + m.down_s = TotalLength(m.bh_intervals_utc)

(* a change of status inside the second of two business-hours intervals *)
C17_Witness ==
    /\ IsMetrics
    /\ Len(ret.value.window["day"].segments) = 2
    /\ Len(ret.value.window["day"].bh_intervals_utc) = 2
    /\ ret.value.window["day"].up_s = 20 * MINUTE
    /\ ret.value.window["day"].down_s = 8 * HOUR - 20 * MINUTE

----------------------------------------------------------------------------
(* Properties of the scan over local dates *)

(* what a rule means on date d: the whole day for 00:00-00:00, the same day *)
(* when it starts before it ends, else into the next day                    *)
OccurrenceOf(r, d) ==
    <<d * DAY + r.start_t - TheZone,
      IF r.start_t = 0 /\ r.end_t = 0 THEN (d + 1) * DAY - TheZone
      ELSE IF r.start_t <= r.end_t THEN d * DAY + r.end_t - TheZone
      ELSE (d + 1) * DAY + r.end_t - TheZone>>

(* the occurrences of all rules on the dates up to three days off the       *)
(* window; an occurrence is shorter than two days, so no other date's       *)
(* occurrence can meet the window                                           *)
Occurrences(ws, we) ==
    LET first == ((ws + TheZone) \div DAY) - 3
        last == ((we + TheZone) \div DAY) + 3
    IN UNION {{OccurrenceOf(TheRows[i], d) :
                  d \in {x \in first..last : x % 7 = TheRows[i].day_of_week}} :
              i \in DOMAIN TheRows}

(* The returned intervals cover exactly the instants of the window that lie  *)
(* in an occurrence: every occurrence's part in the window is inside a       *)
(* returned interval, and every returned interval lies in the window, starts *)
(* in an occurrence and has no occurrence ending inside it without another   *)
(* one going on.                                                             *)
ExactlyTheOccurrences(ws, we, intervals) ==
    LET occs == Occurrences(ws, we)
        InSome(t) == \E o \in occs : o[1] <= t /\ t < o[2]
    IN /\ \A o \in occs :
             Max(o[1], ws) < Min(o[2], we) =>
                 \E k \in DOMAIN intervals :
                     intervals[k][1] <= Max(o[1], ws) /\ Min(o[2], we) <= intervals[k][2]
       /\ \A k \in DOMAIN intervals :
             /\ ws <= intervals[k][1]
             /\ intervals[k][2] <= we
             /\ InSome(intervals[k][1])
             /\ \A o \in occs :
                   (intervals[k][1] <= o[2] /\ o[2] < intervals[k][2]) => InSome(o[2])

(* C18: for a non-empty rule mapping, the returned intervals are exactly the *)
(* time of the window that lies in an occurrence of a rule on any date; the  *)
(* scan from one day before to one day after the window misses nothing and   *)
(* adds nothing.                                                             *)
C18_ScanComplete ==
    /\ (IsExpand /\ TheRows # <<>>) => ExactlyTheOccurrences(ret.ws, ret.we, ret.value)
    /\ (IsMetrics /\ TheRows # <<>>) =>
          \A label \in Labels :
              LET m == ret.value.window[label]
              IN ExactlyTheOccurrences(m.ws, m.we, m.bh_intervals_utc)

(* the last hour, from 02:59:59 on Tuesday in Chicago, lies in the overnight *)
(* occurrence of Monday, the date before the window's first local date       *)
C18_Witness ==
    /\ IsMetrics
    /\ TheRows = <<Row(0, Overnight)>>
    /\ TheZone = Chicago
    /\ NowUtc = N0 - 3 * HOUR - 1
    /\ ret.value.window["hour"].bh_intervals_utc = << <<NowUtc - HOUR, NowUtc>> >>

----------------------------------------------------------------------------
(* Properties of the segments themselves *)

NoEmptySegment(segs) == \A k \in DOMAIN segs : segs[k][1] < segs[k][2]

(* C19: every segment returned by _status_segments starts before it ends,   *)
(* also when observations of different status share a timestamp or sit at   *)
(* ws or at we.                                                             *)
C19_NoEmptySegment ==
    /\ IsSegments => NoEmptySegment(ret.value)
    /\ IsMetrics =>
          \A label \in Labels : NoEmptySegment(ret.value.window[label].segments)

----------------------------------------------------------------------------
(* Closed is not open *)

NoOccurrenceMeets(ws, we) ==
    \A o \in Occurrences(ws, we) : ~(Max(o[1], ws) < Min(o[2], we))

(* C20: with a non-empty rule mapping none of whose occurrences meets the   *)
(* window, the expansion is empty and the window has neither uptime nor     *)
(* downtime, whatever the observations; it is never taken as fully open.    *)
C20_ClosedIsNotOpen ==
    /\ (IsExpand /\ TheRows # <<>> /\ NoOccurrenceMeets(ret.ws, ret.we)) =>
          ret.value = <<>>
    /\ (IsMetrics /\ TheRows # <<>>) =>
          \A label \in Labels :
              LET m == ret.value.window[label]
              IN NoOccurrenceMeets(m.ws, m.we) =>
                    /\ m.bh_intervals_utc = <<>>
                    /\ Uptime(label) = 0
                    /\ Downtime(label) = 0

(* 12:00-12:00 on every weekday, and a store that has been active for a day *)
C20_Witness ==
    /\ IsMetrics
    /\ TheRows = EveryDay(Noon)
    /\ TheObs = <<[ts |-> NowUtc - DAY, status |-> "active"]>>
    /\ ret.value.window["week"].bh_intervals_utc = <<>>
    /\ ret.value.uptime_last_week = 0
    /\ ret.value.downtime_last_week = 0

----------------------------------------------------------------------------
(* Sessions and process-wide state in the parallel batch *)

Started == {s \in DOMAIN worker : worker[s] # "queued"}
AllExited == DOMAIN worker # {} /\ \A s \in DOMAIN worker : worker[s] = "exited"
WorkerSessions == {i \in DOMAIN sessions : sessions[i].opened_by # Orchestrator}

(* C13: every process_store call has a session of its own, opened by it and *)
(* used by no other thread, open while the call runs and closed once the    *)
(* call is over, by return or by exception; when every call is over no      *)
(* session opened by a worker is open.                                      *)
C13_OwnSessionAlwaysClosed ==
    /\ Cardinality(WorkerSessions) = Cardinality(Started)
    /\ \A s \in Started :
          /\ db[s] \in WorkerSessions
          /\ sessions[db[s]].opened_by = s
          /\ sessions[db[s]].open <=> worker[s] # "exited"
    /\ \A s, t \in Started : s # t => db[s] # db[t]
    /\ \A i \in DOMAIN sessions : sessions[i].used_by \subseteq {sessions[i].opened_by}
    /\ AllExited => \A i \in WorkerSessions : ~sessions[i].open

(* three calls are over, one by return and one by exception *)
C13_Witness ==
    /\ AllExited
    /\ Cardinality(DOMAIN worker) = 3
    /\ \E s, t \in DOMAIN worker :
          /\ future[s].outcome = "result"
          /\ future[t].outcome = "exception"
          /\ sessions[db[s]].used_by = {s}
          /\ ~sessions[db[s]].open
          /\ ~sessions[db[t]].open

(* the step in which the call for store s reads os.environ *)
ReadsEnviron(s) == ComputeMetrics(s) \/ ComputeRaises(s)

(* C14: workers share no mutable state: what a process_store call reads     *)
(* from a process-wide variable was never written by another worker.        *)
C14_NoSharedMutableState ==
    [][\A s \in DOMAIN worker :
          ReadsEnviron(s) => environ.SUPPRESS_DEBUG.set_by = s]_vars

(* the clock of the machine when the report is generated *)
WallClock == N0 + DAY

LatestObservation ==
    LET stamps == {store_status[s][1].ts : s \in distinct_store_ids(store_status)}
    IN CHOOSE t \in stamps : \A u \in stamps : u <= t

(* C15: get_dataset_now gives the latest observation of the whole data set  *)
(* as a UTC instant, and the wall clock, without failing, when there is no  *)
(* observation at all.                                                      *)
C15_DatasetNowOrWallClock ==
    /\ reports.status # FailedNoUtc
    /\ pc \in {"submit", "as_completed", "open_csv", "write_csv", "update_report",
            "returned"} =>
          now = IF distinct_store_ids(store_status) = {} THEN Utc(WallClock)
                ELSE Utc(LatestObservation)

----------------------------------------------------------------------------
(* Report lifecycle as seen by get_report *)

FailedStatuses == {FailedQuery, FailedNoUtc}

(* the row says Complete only with its path set and the file written and    *)
(* closed; a poll that answers a file answers that whole file, and no poll  *)
(* answers Complete without one                                             *)
CompleteMeansFileReady ==
    /\ reports.status \in {"Running", "Complete"} \cup FailedStatuses
    /\ reports.status = "Complete" =>
          /\ reports.file_path # ""
          /\ csv_file.written
          /\ csv_file.rows = ExpectedRows
    /\ reports.status # "Complete" => reports.file_path = ""
    /\ response.kind \in {"none", "json", "FileResponse"}
    /\ response.kind = "json" => response.status \in {"Running"} \cup FailedStatuses
    /\ response.kind = "FileResponse" =>
          /\ response.file.written
          /\ response.file.rows = ExpectedRows

(* the row becomes Complete in one step from Running, together with its     *)
(* path, after the file was written                                         *)
CompleteCommit ==
    (reports'.status = "Complete" /\ reports.status # "Complete") =>
        /\ reports.status = "Running"
        /\ csv_file.written
        /\ csv_file' = csv_file
        /\ reports'.file_path # ""

(* a poll of a report whose generation has not failed answers Running as    *)
(* long as the row is not Complete, in particular while the file is not yet *)
(* written or is being written                                              *)
RunningUntilReady ==
    GetReport =>
        /\ (reports.status \notin FailedStatuses /\ ~csv_file.written) =>
              response' = [kind |-> "json", status |-> "Running", file |-> NoFile]
        /\ reports.status = "Running" =>
              response' = [kind |-> "json", status |-> "Running", file |-> NoFile]

(* C21: a report starts as Running; its row is seen Complete only after the *)
(* CSV file is completely written, with file_path set in the same commit;   *)
(* no poll sees Complete without a file path, and polls answer Running      *)
(* until the file is ready.                                                 *)
C21_ReportLifecycle ==
    /\ reports.status = "Running"
    /\ []CompleteMeansFileReady
    /\ [][CompleteCommit]_vars
    /\ [][RunningUntilReady]_vars

(* a poll after the commit got the file, with the rows of two stores *)
C21_Witness ==
    /\ pc = "returned"
    /\ response.kind = "FileResponse"
    /\ Len(response.file.rows) = 2
    /\ failed_stores # <<>>

(* a poll between the end of the write and the commit was answered Running *)
RunningWhileFileWritten ==
    /\ pc = "update_report"
    /\ csv_file.written
    /\ response = [kind |-> "json", status |-> "Running", file |-> NoFile]

====
